---- MODULE Spec2Model ----
(***************************************************************************)
(* Model of the service monitor: the configuration resolver               *)
(* (processEnvironmentVariables), the response validators                  *)
(* (validateRestResponse and its four strategies, validateSoapResponse)    *)
(* and the check orchestrator (checkAllServices, checkRestServices,        *)
(* checkSoapServices).                                                     *)
(***************************************************************************)
EXTENDS Integers, Sequences, FiniteSets, TLC

(***************************************************************************)
(* JSON values.  A value is a record tagged by t:                          *)
(*   [t |-> "null"], [t |-> "undefined"],                                  *)
(*   [t |-> "number" | "string" | "boolean", v |-> <text of the value>],   *)
(*   [t |-> "array", items |-> <sequence of values>],                      *)
(*   [t |-> "object", props |-> <function from own keys to values>].       *)
(***************************************************************************)
Null == [t |-> "null"]
Undefined == [t |-> "undefined"]
Num(s) == [t |-> "number", v |-> s]
Str(s) == [t |-> "string", v |-> s]
Bool(s) == [t |-> "boolean", v |-> s]
Arr(s) == [t |-> "array", items |-> s]
Obj(f) == [t |-> "object", props |-> f]

IsNull(x) == x.t = "null"
IsArray(x) == x.t = "array"
IsPlainObject(x) == x.t = "object"
IsPrimitive(x) == x.t \in {"number", "string", "boolean"}

\* JavaScript's typeof: null, arrays and objects are all "object".
TypeOf(x) == IF x.t \in {"null", "array", "object"} THEN "object" ELSE x.t

\* JavaScript truthiness of a value: null, undefined, 0, "" and false are falsy.
Truthy(x) ==
  CASE x.t \in {"null", "undefined"} -> FALSE
    [] x.t = "number" -> x.v # "0"
    [] x.t = "string" -> x.v # ""
    [] x.t = "boolean" -> x.v # "false"
    [] OTHER -> TRUE

Keys(x) == DOMAIN x.props

\* obj1 === obj2 for a primitive on one side (no object identity is involved).
StrictEqPrim(x, y) ==
  IF IsPrimitive(x) /\ IsPrimitive(y) THEN x.t = y.t /\ x.v = y.v
  ELSE x.t = y.t /\ x.t \in {"null", "undefined"}

\* Own keys are enumerated in insertion order; the objects of this model insert
\* their keys in the order of KeyOrder.
KeyOrder == <<"a", "b", "c", "hasOwnProperty">>

KeyIndex(k) == CHOOSE i \in 1..Len(KeyOrder) : KeyOrder[i] = k

RECURSIVE KeySeq(_)
KeySeq(S) ==
  IF S = {} THEN <<>>
  ELSE LET k == CHOOSE x \in S : \A y \in S : KeyIndex(x) <= KeyIndex(y)
       IN <<k>> \o KeySeq(S \ {k})

\* Outcome of an evaluation: "T" (true), "F" (false) or "X" (it threw).
Res(b) == IF b THEN "T" ELSE "F"

\* Array.prototype.every over callbacks evaluated in order: it stops at the
\* first callback that returns false or throws.
EveryOf(rs) ==
  LET bad == {i \in 1..Len(rs) : rs[i] # "T"}
  IN IF bad = {} THEN "T"
     ELSE rs[CHOOSE i \in bad : \A j \in bad : i <= j]

\* Array.prototype.some: it stops at the first callback that returns true or throws.
SomeOf(rs) ==
  LET hit == {i \in 1..Len(rs) : rs[i] # "F"}
  IN IF hit = {} THEN "F"
     ELSE rs[CHOOSE i \in hit : \A j \in hit : i <= j]

\* obj.hasOwnProperty(key): an own key named hasOwnProperty shadows the method
\* of Object.prototype with a JSON value, and calling it throws a TypeError.
HasOwnProperty(obj, key) ==
  IF "hasOwnProperty" \in Keys(obj) THEN "X" ELSE Res(key \in Keys(obj))

RECURSIVE compareStructure(_, _)
RECURSIVE generateSchema(_)
RECURSIVE validateSchema(_, _)
RECURSIVE createPattern(_)
RECURSIVE matchesPattern(_, _)
RECURSIVE compare(_, _, _, _, _)

\* compareStructure without the comparison of the array lengths.
compareStructure_NoLength(obj1, obj2) ==
  IF TypeOf(obj1) # TypeOf(obj2) THEN FALSE
  ELSE IF IsNull(obj1) \/ IsNull(obj2) THEN IsNull(obj1) /\ IsNull(obj2)
  ELSE IF TypeOf(obj1) # "object" THEN TRUE
  ELSE IF IsArray(obj1) # IsArray(obj2) THEN FALSE
  ELSE IF IsArray(obj1) THEN
    \A i \in 1..Len(obj1.items) :
      i <= Len(obj2.items) /\ compareStructure(obj1.items[i], obj2.items[i])
  ELSE
    IF Keys(obj1) # Keys(obj2) THEN FALSE
    ELSE \A k \in Keys(obj1) : compareStructure(obj1.props[k], obj2.props[k])

\* Strategy 1: structure equality.
compareStructure(obj1, obj2) ==
  IF TypeOf(obj1) # TypeOf(obj2) THEN FALSE
  ELSE IF IsNull(obj1) \/ IsNull(obj2) THEN IsNull(obj1) /\ IsNull(obj2)
  ELSE IF TypeOf(obj1) # "object" THEN TRUE
  ELSE IF IsArray(obj1) # IsArray(obj2) THEN FALSE
  ELSE IF IsArray(obj1) THEN
    IF Len(obj1.items) # Len(obj2.items) THEN FALSE
    ELSE \A i \in 1..Len(obj1.items) : compareStructure(obj1.items[i], obj2.items[i])
  ELSE
    IF Cardinality(Keys(obj1)) # Cardinality(Keys(obj2)) THEN FALSE
    ELSE IF Keys(obj1) # Keys(obj2) THEN FALSE
    ELSE \A k \in Keys(obj1) : compareStructure(obj1.props[k], obj2.props[k])

\* Strategy 2: the schema derived from the expectation.
generateSchema(obj) ==
  IF IsNull(obj) THEN [type |-> "null"]
  ELSE IF IsArray(obj) THEN
    [type |-> "array",
     items |-> IF Len(obj.items) > 0 THEN generateSchema(obj.items[1])
               ELSE [type |-> "any"]]
  ELSE IF TypeOf(obj) = "object" THEN
    [type |-> "object",
     properties |-> [k \in Keys(obj) |-> generateSchema(obj.props[k])],
     required |-> Keys(obj)]
  ELSE [type |-> TypeOf(obj)]

\* validateSchema that validates the required keys only and tolerates extra ones.
validateSchema_ExtraKeys(obj, schema) ==
  IF schema.type = "null" THEN Res(IsNull(obj))
  ELSE IF schema.type = "array" THEN
    IF ~IsArray(obj) THEN "F"
    ELSE EveryOf([i \in 1..Len(obj.items) |-> validateSchema(obj.items[i], schema.items)])
  ELSE IF schema.type = "object" THEN
    IF TypeOf(obj) # "object" \/ IsNull(obj) \/ IsArray(obj) THEN "F"
    ELSE
      LET req == KeySeq(schema.required)
      IN EveryOf([i \in 1..Len(req) |->
           LET has == HasOwnProperty(obj, req[i])
           IN IF has # "T" THEN has
              ELSE validateSchema(obj.props[req[i]], schema.properties[req[i]])])
  ELSE Res(TypeOf(obj) = schema.type)

validateSchema(obj, schema) ==
  IF schema.type = "null" THEN Res(IsNull(obj))
  ELSE IF schema.type = "array" THEN
    IF ~IsArray(obj) THEN "F"
    ELSE EveryOf([i \in 1..Len(obj.items) |-> validateSchema(obj.items[i], schema.items)])
  ELSE IF schema.type = "object" THEN
    IF TypeOf(obj) # "object" \/ IsNull(obj) \/ IsArray(obj) THEN "F"
    ELSE
      LET req == KeySeq(schema.required)
          required == EveryOf([i \in 1..Len(req) |-> HasOwnProperty(obj, req[i])])
          objKeys == KeySeq(Keys(obj))
      IN IF required # "T" THEN required
         ELSE IF Len(objKeys) # Cardinality(DOMAIN schema.properties) THEN "F"
         ELSE EveryOf([i \in 1..Len(objKeys) |->
                IF objKeys[i] \notin DOMAIN schema.properties THEN "F"
                ELSE validateSchema(obj.props[objKeys[i]], schema.properties[objKeys[i]])])
  ELSE Res(TypeOf(obj) = schema.type)

\* Strategy 3: wildcard patterns.  The wildcard is the string "*".
Wildcard == Str("*")

\* createPattern that keeps a primitive as a literal to be matched.
RECURSIVE createPattern_KeepPrimitive(_)
createPattern_KeepPrimitive(obj) ==
  IF IsNull(obj) THEN Null
  ELSE IF IsArray(obj) THEN Arr([i \in 1..Len(obj.items) |-> Wildcard])
  ELSE IF TypeOf(obj) = "object" THEN
    Obj([k \in Keys(obj) |-> createPattern_KeepPrimitive(obj.props[k])])
  ELSE obj

createPattern(obj) ==
  IF IsNull(obj) THEN Null
  ELSE IF IsArray(obj) THEN Arr([i \in 1..Len(obj.items) |-> Wildcard])
  ELSE IF TypeOf(obj) = "object" THEN
    Obj([k \in Keys(obj) |-> createPattern(obj.props[k])])
  ELSE Wildcard

IsWildcard(pattern) == pattern.t = "string" /\ pattern.v = "*"

\* matchesPattern that lets an actual object carry keys the pattern lacks.
RECURSIVE matchesPattern_ExtraKeys(_, _)
matchesPattern_ExtraKeys(obj, pattern) ==
  IF IsWildcard(pattern) THEN TRUE
  ELSE IF IsNull(pattern) THEN IsNull(obj)
  ELSE IF IsArray(pattern) THEN
    IF ~IsArray(obj) THEN FALSE
    ELSE IF Len(obj.items) # Len(pattern.items) THEN FALSE
    ELSE \A i \in 1..Len(obj.items) :
           matchesPattern_ExtraKeys(obj.items[i], pattern.items[i])
  ELSE IF TypeOf(pattern) = "object" /\ ~IsNull(pattern) THEN
    IF TypeOf(obj) # "object" \/ IsNull(obj) \/ IsArray(obj) THEN FALSE
    ELSE IF ~(Keys(pattern) \subseteq Keys(obj)) THEN FALSE
    ELSE \A k \in Keys(pattern) : matchesPattern_ExtraKeys(obj.props[k], pattern.props[k])
  ELSE StrictEqPrim(obj, pattern)

matchesPattern(obj, pattern) ==
  IF IsWildcard(pattern) THEN TRUE
  ELSE IF IsNull(pattern) THEN IsNull(obj)
  ELSE IF IsArray(pattern) THEN
    IF ~IsArray(obj) THEN FALSE
    ELSE IF Len(obj.items) # Len(pattern.items) THEN FALSE
    ELSE \A i \in 1..Len(obj.items) : matchesPattern(obj.items[i], pattern.items[i])
  ELSE IF TypeOf(pattern) = "object" /\ ~IsNull(pattern) THEN
    IF TypeOf(obj) # "object" \/ IsNull(obj) \/ IsArray(obj) THEN FALSE
    ELSE IF Cardinality(Keys(pattern)) # Cardinality(Keys(obj)) THEN FALSE
    ELSE IF Keys(pattern) # Keys(obj) THEN FALSE
    ELSE \A k \in Keys(pattern) : matchesPattern(obj.props[k], pattern.props[k])
  ELSE StrictEqPrim(obj, pattern)

\* Strategy 4: the inner compare of compareFlexible, with its three options.
compare(actual, expected, ignoreArrayOrder, allowExtraFields, typeStrict) ==
  IF IsNull(expected) THEN Res(IsNull(actual))
  ELSE IF IsNull(actual) THEN "F"
  ELSE IF IsArray(expected) THEN
    IF ~IsArray(actual) THEN "F"
    ELSE IF Len(expected.items) # Len(actual.items) THEN "F"
    ELSE IF ignoreArrayOrder THEN
      EveryOf([i \in 1..Len(expected.items) |->
        SomeOf([j \in 1..Len(actual.items) |->
          compare(actual.items[j], expected.items[i],
                  ignoreArrayOrder, allowExtraFields, typeStrict)])])
    ELSE
      EveryOf([i \in 1..Len(expected.items) |->
        compare(actual.items[i], expected.items[i],
                ignoreArrayOrder, allowExtraFields, typeStrict)])
  ELSE IF TypeOf(expected) = "object" THEN
    IF TypeOf(actual) # "object" \/ IsArray(actual) THEN "F"
    ELSE
      LET expectedKeys == KeySeq(Keys(expected))
      IN IF ~allowExtraFields /\ Len(expectedKeys) # Cardinality(Keys(actual)) THEN "F"
         ELSE EveryOf([i \in 1..Len(expectedKeys) |->
                LET has == HasOwnProperty(actual, expectedKeys[i])
                IN IF has # "T" THEN has
                   ELSE compare(actual.props[expectedKeys[i]], expected.props[expectedKeys[i]],
                                ignoreArrayOrder, allowExtraFields, typeStrict)])
  ELSE IF typeStrict THEN Res(TypeOf(actual) = TypeOf(expected))
  ELSE "T"

compareFlexible(response, expected, ignoreArrayOrder, allowExtraFields, typeStrict) ==
  compare(response, expected, ignoreArrayOrder, allowExtraFields, typeStrict)


(***************************************************************************)
(* validateRestResponse.  A response is [defined, status, data]; the       *)
(* response of a service that was not called is not defined.  The result   *)
(* is [outcome, tried]: outcome "T"/"F" is the returned boolean and "X" an *)
(* exception that leaves the function; tried lists the strategies that     *)
(* were evaluated, in order.                                               *)
(***************************************************************************)
NoResponse == [defined |-> FALSE, status |-> 0, data |-> Undefined]
Response(st, d) == [defined |-> TRUE, status |-> st, data |-> d]

\* Lines 174-216: the four strategies inside the single try block.
validateContent(data, expectedStructure) ==
  IF compareStructure(data, expectedStructure)
    THEN [outcome |-> "T", tried |-> <<"structure">>]
  ELSE
    LET schema == validateSchema(data, generateSchema(expectedStructure))
    IN IF schema = "T" THEN [outcome |-> "T", tried |-> <<"structure", "schema">>]
       ELSE IF schema = "X" THEN [outcome |-> "F", tried |-> <<"structure", "schema">>]
       ELSE IF matchesPattern(data, createPattern(expectedStructure))
         THEN [outcome |-> "T", tried |-> <<"structure", "schema", "pattern">>]
       ELSE
         LET flexible == compareFlexible(data, expectedStructure, FALSE, FALSE, FALSE)
         IN [outcome |-> IF flexible = "T" THEN "T" ELSE "F",
             tried |-> <<"structure", "schema", "pattern", "flexible">>]

\* validateRestResponse without the comparison of the status codes.
validateRestResponse_NoStatus(expectedStatus, expectedContent, response) ==
  IF ~Truthy(expectedContent) THEN [outcome |-> "T", tried |-> <<>>]
  ELSE IF ~response.defined THEN [outcome |-> "F", tried |-> <<>>]
  ELSE validateContent(response.data, expectedContent)

validateRestResponse(expectedStatus, expectedContent, response) ==
  IF expectedStatus # 0 /\ ~response.defined THEN [outcome |-> "X", tried |-> <<>>]
  ELSE IF expectedStatus # 0 /\ response.status # expectedStatus
    THEN [outcome |-> "F", tried |-> <<>>]
  ELSE IF ~Truthy(expectedContent) THEN [outcome |-> "T", tried |-> <<>>]
  ELSE IF ~response.defined THEN [outcome |-> "F", tried |-> <<>>]
  ELSE validateContent(response.data, expectedContent)

(***************************************************************************)
(* validateSoapResponse.  contains stands for the outcome of               *)
(* JSON.stringify(response).includes(expectedContent).                     *)
(***************************************************************************)
FaultKeys == {"Fault", "fault", "error", "Error"}

\* validateSoapResponse that accepts as soon as the expected content is found.
validateSoapResponse_ContentFirst(expectedContent, response, contains) ==
  IF Truthy(expectedContent) /\ response.t = "undefined" THEN "X"
  ELSE IF Truthy(expectedContent) /\ ~contains THEN "F"
  ELSE IF Truthy(expectedContent) THEN "T"
  ELSE IF response.t \in {"null", "undefined"} THEN "X"
  ELSE IF IsPlainObject(response)
          /\ \E k \in FaultKeys : k \in Keys(response) /\ Truthy(response.props[k])
    THEN "F"
  ELSE "T"

validateSoapResponse(expectedContent, response, contains) ==
  IF Truthy(expectedContent) /\ response.t = "undefined" THEN "X"
  ELSE IF Truthy(expectedContent) /\ ~contains THEN "F"
  ELSE IF response.t \in {"null", "undefined"} THEN "X"
  ELSE IF IsPlainObject(response)
          /\ \E k \in FaultKeys : k \in Keys(response) /\ Truthy(response.props[k])
    THEN "F"
  ELSE "T"

(***************************************************************************)
(* Strings of the configuration (URLs, paths, variable names, header names *)
(* and values) are sequences of tokens; "/" is a token of its own, so that *)
(* endsWith('/'), startsWith('/') and slice act as in the code.  Undef is  *)
(* the absent string (undefined); <<>> is the empty string.                *)
(***************************************************************************)
Undef == <<"undefined">>

\* JavaScript truthiness of an optional string: undefined and "" are falsy.
TruthyS(s) == s # Undef /\ s # <<>>

\* process.env[name]
GetEnv(env, name) == IF name \in DOMAIN env THEN env[name] ELSE Undef

EndsWithSlash(s) == Len(s) > 0 /\ s[Len(s)] = "/"
StartsWithSlash(s) == Len(s) > 0 /\ s[1] = "/"

\* JoinUrl that concatenates without removing any slash.
JoinUrl_NoStrip(base, path) == base \o <<"/">> \o path

\* `${base}/${path}` after one trailing slash of the base and one leading slash
\* of the path are removed (lines 308-320 and 341-353).
JoinUrl(base, path) ==
  LET b == IF EndsWithSlash(base) THEN SubSeq(base, 1, Len(base) - 1) ELSE base
      q == IF StartsWithSlash(path) THEN SubSeq(path, 2, Len(path)) ELSE path
  IN b \o <<"/">> \o q

\* `${name}_${currentEnvironment}`
EnvSpecific(name, E) == name \o <<"_", E>>

\* s.includes(sub)
Includes(s, sub) ==
  \E i \in 0..(Len(s) - Len(sub)) : SubSeq(s, i + 1, i + Len(sub)) = sub

\* IsIncluded that looks at the environment pin and the enabled flag only.
IsIncluded_PinOnly(service, E) ==
  (service.environment = "unset" \/ service.environment = E)
  /\ service.enabled # "false"

\* The filter of lines 277-291.
IsIncluded(service, E) ==
  LET hasEnvironmentUrl == E \in DOMAIN service.environmentUrls
  IN (hasEnvironmentUrl \/ service.environment = "unset" \/ service.environment = E)
     /\ service.enabled # "false"

\* UrlFromEnvironmentUrls that always takes the entry literally.
UrlFromEnvironmentUrls_Literal(service, env, E) ==
  IF TruthyS(service.path) THEN JoinUrl(service.environmentUrls[E], service.path)
  ELSE service.environmentUrls[E]

\* URL rule 1 (lines 298-326).
UrlFromEnvironmentUrls(service, env, E) ==
  LET envUrlValue == service.environmentUrls[E]
      url == IF TruthyS(GetEnv(env, envUrlValue)) THEN GetEnv(env, envUrlValue)
             ELSE envUrlValue
  IN IF TruthyS(service.path) THEN JoinUrl(url, service.path) ELSE url

\* URL rule 3 (lines 332-359).
UrlFromBaseAndPath(service, env) ==
  LET literal == IF TruthyS(service.baseUrl) THEN service.baseUrl ELSE <<>>
      baseUrl == IF TruthyS(service.baseUrlEnvVar)
                    /\ TruthyS(GetEnv(env, service.baseUrlEnvVar))
                 THEN GetEnv(env, service.baseUrlEnvVar) ELSE literal
  IN IF TruthyS(baseUrl) /\ TruthyS(service.path) THEN JoinUrl(baseUrl, service.path)
     ELSE IF TruthyS(baseUrl) THEN baseUrl
     ELSE IF TruthyS(service.path) THEN service.path
     ELSE service.url

\* ResolveUrl that tries urlEnvVar before environmentUrls.
ResolveUrl_EnvVarFirst(service, env, E) ==
  IF TruthyS(service.urlEnvVar) /\ TruthyS(GetEnv(env, service.urlEnvVar))
    THEN GetEnv(env, service.urlEnvVar)
  ELSE IF E \in DOMAIN service.environmentUrls /\ TruthyS(service.environmentUrls[E])
    THEN UrlFromEnvironmentUrls(service, env, E)
  ELSE IF TruthyS(service.baseUrl) \/ TruthyS(service.path)
    THEN UrlFromBaseAndPath(service, env)
  ELSE service.url

\* The if / else-if chain of lines 298-359; the copy keeps the descriptor's own
\* url when no branch assigns one.
ResolveUrl(service, env, E) ==
  IF E \in DOMAIN service.environmentUrls /\ TruthyS(service.environmentUrls[E])
    THEN UrlFromEnvironmentUrls(service, env, E)
  ELSE IF TruthyS(service.urlEnvVar) /\ TruthyS(GetEnv(env, service.urlEnvVar))
    THEN GetEnv(env, service.urlEnvVar)
  ELSE IF TruthyS(service.baseUrl) \/ TruthyS(service.path)
    THEN UrlFromBaseAndPath(service, env)
  ELSE service.url

(***************************************************************************)
(* Headers.  A header map is a function from header names to values.       *)
(* headerEnvVars is the sequence of its entries in insertion order, each   *)
(* [key, single, names]: single tells a string value (names has one name)  *)
(* from an array value.                                                    *)
(***************************************************************************)
Put(h, k, v) == [x \in DOMAIN h \cup {k} |-> IF x = k THEN v ELSE h[x]]
Remove(h, k) == [x \in DOMAIN h \ {k} |-> h[x]]

NoEntry == [key |-> Undef, single |-> TRUE, names |-> <<>>]

\* service.headerEnvVars[key]
EntryOf(entries, key) ==
  IF \E i \in 1..Len(entries) : entries[i].key = key
  THEN entries[CHOOSE i \in 1..Len(entries) : entries[i].key = key]
  ELSE NoEntry

\* process.env[x] where x is the value of a headerEnvVars entry: an array is
\* converted to its elements joined by commas, which names a variable only
\* when the array has one element.
GetEnvOfEntry(env, entry) ==
  IF Len(entry.names) = 1 THEN GetEnv(env, entry.names[1]) ELSE Undef

First(S) == CHOOSE i \in S : \A j \in S : i <= j

\* Lines 417-447: the value found for a string or an array of variable names,
\* Undef when no variable resolves.
ValueFromEnvVars(entry, env, E) ==
  LET names == entry.names
      specific == {i \in 1..Len(names) : TruthyS(GetEnv(env, EnvSpecific(names[i], E)))}
      plain == {i \in 1..Len(names) : TruthyS(GetEnv(env, names[i]))}
  IN IF entry.single THEN
       IF specific # {} THEN GetEnv(env, EnvSpecific(names[1], E))
       ELSE IF plain # {} THEN GetEnv(env, names[1])
       ELSE Undef
     ELSE
       IF specific # {} THEN GetEnv(env, EnvSpecific(names[First(specific)], E))
       ELSE IF plain # {} THEN GetEnv(env, names[First(plain)])
       ELSE Undef

\* One iteration of the forEach of lines 365-448 on the header map h.  aliased
\* tells that the descriptor has a headers object: the copy shares it, so
\* service.headers reads h.
HeaderStep(h, aliased, entries, entry, env, E) ==
  LET headerKey == entry.key
      finalHeaderKey == IF TruthyS(GetEnv(env, headerKey)) THEN GetEnv(env, headerKey)
                        ELSE headerKey
      envSpecificHeaderKey == <<"NAME_", "API_KEY", "_", E>>
      envSpecificHeaderValue == <<"API_KEY", "_", E>>
      keyEntry == EntryOf(entries, envSpecificHeaderKey)
      found == ValueFromEnvVars(entry, env, E)
  IN IF aliased /\ envSpecificHeaderKey \in DOMAIN h /\ TruthyS(h[envSpecificHeaderKey]) THEN
       IF Len(headerKey) > 0 /\ headerKey[1] = "NAME_" THEN
         LET apiKeyValue == IF keyEntry # NoEntry /\ TruthyS(GetEnvOfEntry(env, keyEntry))
                            THEN GetEnvOfEntry(env, keyEntry) ELSE <<"XXXX valor">>
         IN Put(Remove(Remove(h, headerKey), envSpecificHeaderKey), finalHeaderKey, apiKeyValue)
       ELSE Put(h, envSpecificHeaderKey, envSpecificHeaderValue)
     ELSE IF Includes(headerKey, envSpecificHeaderKey) THEN
       IF found # Undef THEN Put(h, headerKey, found) ELSE h
     ELSE IF keyEntry # NoEntry /\ keyEntry.single /\ TruthyS(GetEnvOfEntry(env, keyEntry)) THEN
       Put(h, finalHeaderKey, GetEnvOfEntry(env, keyEntry))
     ELSE IF found # Undef THEN Put(h, finalHeaderKey, found) ELSE h

RECURSIVE HeaderLoop(_, _, _, _, _, _)
HeaderLoop(h, aliased, entries, i, env, E) ==
  IF i > Len(entries) THEN h
  ELSE HeaderLoop(HeaderStep(h, aliased, entries, entries[i], env, E),
                  aliased, entries, i + 1, env, E)

\* Lines 362-449.  headers and headerEnvVars are [present, ...]: an absent
\* headers object is replaced by a fresh one on the copy.
ResolveHeaders(service, env, E) ==
  IF ~service.headerEnvVars.present THEN service.headers
  ELSE [present |-> TRUE,
        map |-> HeaderLoop(service.headers.map, service.headers.present,
                           service.headerEnvVars.entries, 1, env, E)]

\* The map callback of lines 294-456: the resolved copy of one descriptor.
ProcessService(service, env, E) ==
  [service EXCEPT !.url = ResolveUrl(service, env, E),
                  !.headers = ResolveHeaders(service, env, E)]

\* The descriptor as the call leaves it: the copy is shallow, so the writes to
\* the copy's headers land in the descriptor's own headers object when it has one.
AfterProcess(service, env, E) ==
  IF service.headerEnvVars.present /\ service.headers.present
  THEN [service EXCEPT !.headers = ResolveHeaders(service, env, E)]
  ELSE service

RECURSIVE FilterSeq(_, _)
FilterSeq(services, E) ==
  IF services = <<>> THEN <<>>
  ELSE (IF IsIncluded(Head(services), E) THEN <<Head(services)>> ELSE <<>>)
       \o FilterSeq(Tail(services), E)

\* processEnvironmentVariables(services, environment), lines 273-457.
processEnvironmentVariables(services, env, E) ==
  LET kept == FilterSeq(services, E)
  IN [i \in 1..Len(kept) |-> ProcessService(kept[i], env, E)]

\* The catalog after the call: the kept descriptors are the ones processed.
CatalogAfter(services, env, E) ==
  [i \in 1..Len(services) |->
     IF IsIncluded(services[i], E) THEN AfterProcess(services[i], env, E)
     ELSE services[i]]

(***************************************************************************)
(* The values the validators are exercised on.                             *)
(***************************************************************************)
MaxArrLen == 2

ArrOf(V, n) == {Arr(s) : s \in UNION {[1..m -> V] : m \in 0..n}}
ObjOf(K, V) == {Obj(f) : f \in UNION {[S -> V] : S \in SUBSET K}}

Atoms == {Null, Num("0"), Num("1"), Str(""), Str("s"), Bool("false"), Bool("true")}
Leaf == {Null, Num("1"), Num("2"), Str("s")}
Inner == Leaf \cup {Arr(<<>>), Arr(<<Num("1")>>), Obj(<<>>)}
Elems == {Null, Num("1"), Str("s"), Arr(<<Num("1")>>)}
Shadowing ==
  {x \in ObjOf({"a", "hasOwnProperty"}, {Num("1"), Obj(<<>>)}) : "hasOwnProperty" \in Keys(x)}
Values ==
  Atoms \cup ArrOf(Elems, MaxArrLen) \cup ObjOf({"a", "b"}, Inner)
        \cup ObjOf({"a", "b", "c"}, {Num("1")}) \cup Shadowing

SoapKeys == {"Fault", "fault", "FAULT", "Error", "error", "Body"}
SoapResponses ==
  {Null, Undefined, Str("<xml/>")} \cup ObjOf(SoapKeys, {Null, Obj(<<>>)})

VARIABLES vMode, vExpectedStatus, vExpectedContent, vResponse, vContains, vOut,
          rPc, rInput, rCatalog, rEnv, rE, rOut,
          bPc, bSource, bServiceId, bDisabled, bIdx, bRows, bLog, bResults, bError

vvars == <<vMode, vExpectedStatus, vExpectedContent, vResponse, vContains, vOut>>
rvars == <<rPc, rInput, rCatalog, rEnv, rE, rOut>>
bvars == <<bPc, bSource, bServiceId, bDisabled, bIdx, bRows, bLog, bResults, bError>>
vars == <<vvars, rvars, bvars>>

NoOut == [outcome |-> "none"]

IdleVal ==
  /\ vMode = "idle"
  /\ vExpectedStatus = 0
  /\ vExpectedContent = Undefined
  /\ vResponse = NoResponse
  /\ vContains = FALSE
  /\ vOut = NoOut

IdleRes ==
  /\ rPc = "idle"
  /\ rInput = <<>>
  /\ rCatalog = <<>>
  /\ rEnv = <<>>
  /\ rE = "SIT"
  /\ rOut = <<>>

NoResults == [services |-> <<>>, summary |-> [total |-> 0, success |-> 0, failed |-> 0]]

IdleBatch ==
  /\ bPc = "idle"
  /\ bSource = "file"
  /\ bServiceId = ""
  /\ bDisabled = {}
  /\ bIdx = 0
  /\ bRows = <<>>
  /\ bLog = <<>>
  /\ bResults = NoResults
  /\ bError = <<>>

(***************************************************************************)
(* The validators on drawn inputs.                                         *)
(***************************************************************************)
\* Inputs of validateRestResponse: a declared or absent expectedStatus, a
\* response status, a body, and a declared or absent expectedContent.
InitRest ==
  /\ vMode = "rest"
  /\ \E st \in {<<0, 200>>, <<200, 200>>, <<200, 404>>} :
       /\ vExpectedStatus = st[1]
       /\ \E d \in Values : vResponse = Response(st[2], d)
  /\ vExpectedContent \in Values \cup {Undefined}
  /\ vContains = FALSE
  /\ vOut = NoOut

InitSoap ==
  /\ vMode = "soap"
  /\ vExpectedStatus = 0
  /\ vExpectedContent \in {Undefined, Str("OK")}
  /\ vResponse \in {Response(200, d) : d \in SoapResponses}
  /\ vContains \in BOOLEAN
  /\ vOut = NoOut

InitVal == (InitRest \/ InitSoap) /\ IdleRes /\ IdleBatch

\* The REST validator and each of its strategies applied to the inputs.
ValidateRest ==
  /\ vMode = "rest"
  /\ vOut = NoOut
  /\ vOut' = [outcome |-> validateRestResponse(vExpectedStatus, vExpectedContent, vResponse).outcome,
              tried |-> validateRestResponse(vExpectedStatus, vExpectedContent, vResponse).tried,
              structure |-> compareStructure(vResponse.data, vExpectedContent),
              schema |-> validateSchema(vResponse.data, generateSchema(vExpectedContent)),
              pattern |-> matchesPattern(vResponse.data, createPattern(vExpectedContent)),
              flexible |-> compareFlexible(vResponse.data, vExpectedContent, FALSE, FALSE, FALSE),
              flexibleExtra |-> compareFlexible(vResponse.data, vExpectedContent, FALSE, TRUE, FALSE)]
  /\ UNCHANGED <<vMode, vExpectedStatus, vExpectedContent, vResponse, vContains>>
  /\ UNCHANGED <<rvars, bvars>>

ValidateSoap ==
  /\ vMode = "soap"
  /\ vOut = NoOut
  /\ vOut' = [outcome |-> validateSoapResponse(vExpectedContent, vResponse.data, vContains)]
  /\ UNCHANGED <<vMode, vExpectedStatus, vExpectedContent, vResponse, vContains>>
  /\ UNCHANGED <<rvars, bvars>>

NextVal == ValidateRest \/ ValidateSoap

SpecVal == InitVal /\ [][NextVal]_vars

(***************************************************************************)
(* The resolver on drawn descriptors and environment variables.            *)
(***************************************************************************)
NoHeaders == [present |-> FALSE, map |-> <<>>]
NoHeaderEnvVars == [present |-> FALSE, entries |-> <<>>]

\* A REST descriptor that declares nothing optional.
Descriptor ==
  [id |-> "s", type |-> "REST", enabled |-> "unset", environment |-> "unset",
   environmentUrls |-> <<>>, url |-> Undef, baseUrl |-> Undef, path |-> Undef,
   urlEnvVar |-> Undef, baseUrlEnvVar |-> Undef,
   headers |-> NoHeaders, headerEnvVars |-> NoHeaderEnvVars,
   expectedStatus |-> 0, expectedContent |-> Undefined]

EnvUrls(E, v) == [e \in {E} |-> v]

UrlDescriptors ==
  {[Descriptor EXCEPT !.environmentUrls = eu, !.path = p, !.urlEnvVar = uv,
                      !.baseUrl = b, !.baseUrlEnvVar = bv, !.url = u] :
     eu \in {<<>>} \cup {EnvUrls("UAT", v) : v \in {<<>>, <<"V">>, <<"h">>, <<"h", "/">>}},
     p \in {Undef, <<>>, <<"x">>, <<"/", "x">>, <<"/">>},
     uv \in {Undef, <<"U">>},
     b \in {Undef, <<"h">>, <<"h", "/">>},
     bv \in {Undef, <<"B">>},
     u \in {Undef, <<"lit">>}}

UrlEnvs ==
  {[n \in {<<"V">>, <<"U">>, <<"B">>} |->
      IF n = <<"V">> THEN v ELSE IF n = <<"U">> THEN u ELSE b] :
     v \in {Undef, <<>>, <<"e">>, <<"e", "/">>},
     u \in {Undef, <<>>, <<"u">>},
     b \in {Undef, <<"b", "/">>}}

InitUrl ==
  /\ rPc = "input"
  /\ rInput \in {<<d>> : d \in UrlDescriptors}
  /\ rCatalog = rInput
  /\ rEnv \in UrlEnvs
  /\ rE \in {"UAT", "PROD"}
  /\ rOut = <<>>
  /\ IdleVal
  /\ IdleBatch

\* Readable that takes every configuration file as parsed.
Readable_Always(source) == TRUE

\* readFileSync and JSON.parse of getServiceConfig succeed (lines 247-250).
Readable(source) == source = "file"

\* getServiceConfig on a readable configuration file: the call of
\* processEnvironmentVariables on the loaded catalog.
Resolve ==
  /\ rPc = "input"
  /\ Readable(bSource)
  /\ rPc' = "resolved"
  /\ rOut' = processEnvironmentVariables(rCatalog, rEnv, rE)
  /\ rCatalog' = CatalogAfter(rCatalog, rEnv, rE)
  /\ UNCHANGED <<rInput, rEnv, rE>>
  /\ UNCHANGED <<vvars, bvars>>

NextUrl == Resolve

SpecUrl == InitUrl /\ [][NextUrl]_vars

(***************************************************************************)
(* The resolver on drawn headers, headerEnvVars and environment variables. *)
(***************************************************************************)
MaxEntries == 2

HeaderX == <<"x-api">>
HeaderName == <<"NAME_", "API_KEY">>
HeaderNameUat == <<"NAME_", "API_KEY", "_", "UAT">>
ApiKey == <<"API_KEY">>
OtherKey == <<"K2">>

HeaderMaps ==
  {NoHeaders} \cup
  {[present |-> TRUE, map |-> [k \in S |-> <<"lit">>]] :
     S \in SUBSET {HeaderX, HeaderName, HeaderNameUat}}

Entries ==
  {[key |-> k, single |-> TRUE, names |-> <<n>>] :
     k \in {HeaderX, HeaderName, HeaderNameUat}, n \in {ApiKey, OtherKey}}
  \cup
  {[key |-> k, single |-> FALSE, names |-> ns] :
     k \in {HeaderX, HeaderName, HeaderNameUat},
     ns \in {<<ApiKey, OtherKey>>, <<OtherKey, ApiKey>>}}

\* The entries of a headerEnvVars object: at most MaxEntries, with distinct keys.
EntryLists ==
  {es \in UNION {[1..n -> Entries] : n \in 0..MaxEntries} :
     \A i, j \in 1..Len(es) : i # j => es[i].key # es[j].key}

HeaderDescriptors ==
  {[Descriptor EXCEPT !.url = <<"lit">>, !.headers = h, !.headerEnvVars = hv] :
     h \in HeaderMaps,
     hv \in {NoHeaderEnvVars} \cup {[present |-> TRUE, entries |-> es] : es \in EntryLists}}

HeaderEnvs ==
  {[n \in {ApiKey, EnvSpecific(ApiKey, "UAT"), OtherKey, EnvSpecific(OtherKey, "UAT"), HeaderX}
      |-> CASE n = ApiKey -> a
            [] n = EnvSpecific(ApiKey, "UAT") -> au
            [] n = OtherKey -> o
            [] n = EnvSpecific(OtherKey, "UAT") -> ou
            [] OTHER -> x] :
     a \in {Undef, <<"k2">>}, au \in {Undef, <<>>, <<"k1">>},
     o \in {Undef, <<"m2">>}, ou \in {Undef, <<"m1">>},
     x \in {Undef, <<"X-Real">>}}

InitHdr ==
  /\ rPc = "input"
  /\ rInput \in {<<d>> : d \in HeaderDescriptors}
  /\ rCatalog = rInput
  /\ rEnv \in HeaderEnvs
  /\ rE \in {"UAT", "PROD"}
  /\ rOut = <<>>
  /\ IdleVal
  /\ IdleBatch

NextHdr == Resolve

SpecHdr == InitHdr /\ [][NextHdr]_vars

(***************************************************************************)
(* The batch: checkAllServices, checkRestServices and checkSoapServices.   *)
(* A row is the ServiceResult pushed for one service; details is the text  *)
(* of the row as a sequence of parts, <<"Error: ", message>> for a row of  *)
(* the catch block.                                                        *)
(***************************************************************************)
Healthy == <<"Service is healthy">>
Invalid == <<"Service response validation failed">>
UrlRequired == "URL is required"
TypeErrorMessage == "Cannot read properties of undefined"
LoadFailed == "Failed to load service configuration: "
NotFound == "Service with ID not found"

\* The row of the try block (rest lines 51-62, soap lines 26-36).
Row(service, type, isValid, statusCode) ==
  [id |-> service.id, type |-> type, url |-> service.url,
   status |-> IF isValid THEN "success" ELSE "failed",
   statusCode |-> statusCode,
   details |-> IF isValid THEN Healthy ELSE Invalid]

\* ErrorRow whose details drop the message of the error.
ErrorRow_NoMessage(service, type, message) ==
  [id |-> service.id, type |-> type, url |-> service.url,
   status |-> "failed", statusCode |-> 0, details |-> Invalid]

\* The row of the catch block (rest lines 65-77, soap lines 41-51); statusCode
\* 0 stands for 'N/A'.
ErrorRow(service, type, message) ==
  [id |-> service.id, type |-> type, url |-> service.url,
   status |-> "failed", statusCode |-> 0, details |-> <<"Error: ", message>>]

\* What a transport call can end in.
Returned(response, contains) ==
  [threw |-> FALSE, message |-> "", response |-> response, contains |-> contains]
Threw(message) ==
  [threw |-> TRUE, message |-> message, response |-> NoResponse, contains |-> FALSE]

\* RestRow that takes the verdict of the validation for an absent response
\* instead of reading response.status.
RestRow_AbsentStatus(service, outcome) ==
  IF outcome.threw THEN ErrorRow(service, "REST", outcome.message)
  ELSE
    LET isValid == validateRestResponse(service.expectedStatus, service.expectedContent,
                                        outcome.response).outcome
    IN IF isValid = "X" THEN ErrorRow(service, "REST", TypeErrorMessage)
       ELSE Row(service, "REST", isValid = "T", outcome.response.status)

\* Rest lines 45-62 once the response is there (undefined for a disabled
\* service): validateRestResponse, then the push that reads response.status.
RestRow(service, outcome) ==
  IF outcome.threw THEN ErrorRow(service, "REST", outcome.message)
  ELSE
    LET isValid == validateRestResponse(service.expectedStatus, service.expectedContent,
                                        outcome.response).outcome
    IN IF isValid = "X" \/ ~outcome.response.defined
         THEN ErrorRow(service, "REST", TypeErrorMessage)
       ELSE Row(service, "REST", isValid = "T", outcome.response.status)

\* Soap lines 20-36 once makeSoapRequest has settled.
SoapRow(service, outcome) ==
  IF outcome.threw THEN ErrorRow(service, "SOAP", outcome.message)
  ELSE
    LET isValid == validateSoapResponse(service.expectedContent, outcome.response.data,
                                        outcome.contains)
    IN IF isValid = "X" THEN ErrorRow(service, "SOAP", TypeErrorMessage)
       ELSE Row(service, "SOAP", isValid = "T", 0)

RECURSIVE SelectType(_, _)
SelectType(services, type) ==
  IF services = <<>> THEN <<>>
  ELSE (IF Head(services).type = type THEN <<Head(services)>> ELSE <<>>)
       \o SelectType(Tail(services), type)

RECURSIVE SelectId(_, _)
SelectId(services, id) ==
  IF services = <<>> THEN <<>>
  ELSE (IF Head(services).id = id THEN <<Head(services)>> ELSE <<>>)
       \o SelectId(Tail(services), id)

\* ServicesToCheck that checks the whole configuration when the id selects
\* nothing.
ServicesToCheck_Fallback(config, serviceId) ==
  IF serviceId # "" /\ SelectId(config, serviceId) # <<>> THEN SelectId(config, serviceId)
  ELSE config

\* servicesToCheck of index.ts lines 39-41; the empty string and null are the
\* falsy serviceId.
ServicesToCheck(config, serviceId) ==
  IF serviceId # "" THEN SelectId(config, serviceId) ELSE config

RECURSIVE CountSuccess(_)
CountSuccess(rows) ==
  IF rows = <<>> THEN 0
  ELSE (IF Head(rows).status = "success" THEN 1 ELSE 0) + CountSuccess(Tail(rows))

\* Summary that counts every row as a success.
Summary_AllSuccess(rows) ==
  [total |-> Len(rows), success |-> Len(rows), failed |-> 0]

\* index.ts lines 71-73.
Summary(rows) ==
  [total |-> Len(rows), success |-> CountSuccess(rows),
   failed |-> Len(rows) - CountSuccess(rows)]

\* The responses and failures the network produces in the model.
RestOutcomes ==
  {Returned(Response(200, Obj([k \in {"a"} |-> Num("1")])), FALSE),
   Returned(Response(200, Str("s")), FALSE),
   Returned(Response(404, Obj([k \in {"a"} |-> Num("1")])), FALSE),
   Threw("timeout")}

SoapOutcomes ==
  {Returned(Response(200, Obj([k \in {"Body"} |-> Obj(<<>>)])), TRUE),
   Returned(Response(200, Obj([k \in {"Body"} |-> Obj(<<>>)])), FALSE),
   Returned(Response(200, Obj([k \in {"Fault"} |-> Obj(<<>>)])), TRUE),
   Threw("socket hang up")}

\* The services of the running checker and the one it is at.
Queue == SelectType(ServicesToCheck(rOut, bServiceId),
                    IF bPc \in {"rest", "restAwait"} THEN "REST" ELSE "SOAP")
Current == Queue[bIdx]

\* HasUrl that lets every service through to the request.
HasUrl_Always(service) == TRUE

\* The guard of makeRestRequest and makeSoapRequest, if (!url) throw (rest
\* line 95, soap line 70).
HasUrl(service) == TruthyS(service.url)

\* getServiceConfig on a configuration file that cannot be parsed (lines
\* 261-264), rethrown by checkAllServices (index.ts lines 76-79).
LoadFail ==
  /\ bPc = "start"
  /\ rPc = "input"
  /\ ~Readable(bSource)
  /\ bPc' = "error"
  /\ bError' = <<LoadFailed, "Unexpected token">>
  /\ UNCHANGED <<bSource, bServiceId, bDisabled, bIdx, bRows, bLog, bResults>>
  /\ UNCHANGED <<vvars, rvars>>

\* index.ts lines 39-57.
Select ==
  /\ bPc = "start"
  /\ rPc = "resolved"
  /\ IF bServiceId # "" /\ ServicesToCheck(rOut, bServiceId) = <<>>
       THEN bPc' = "error" /\ bError' = <<NotFound>> /\ bIdx' = bIdx
       ELSE bPc' = "rest" /\ bError' = bError /\ bIdx' = 1
  /\ UNCHANGED <<bSource, bServiceId, bDisabled, bRows, bLog, bResults>>
  /\ UNCHANGED <<vvars, rvars>>

\* One iteration of checkRestServices for a service of the disabled list:
\* no request, response stays undefined (rest lines 37-46).
RestSkip ==
  /\ bPc = "rest"
  /\ bIdx <= Len(Queue)
  /\ Current.id \in bDisabled
  /\ bRows' = Append(bRows, RestRow(Current, Returned(NoResponse, FALSE)))
  /\ bIdx' = bIdx + 1
  /\ UNCHANGED <<bPc, bSource, bServiceId, bDisabled, bLog, bResults, bError>>
  /\ UNCHANGED <<vvars, rvars>>

\* makeRestRequest throws before any request when the service has no URL
\* (rest lines 95-97).
RestNoUrl ==
  /\ bPc = "rest"
  /\ bIdx <= Len(Queue)
  /\ Current.id \notin bDisabled
  /\ ~HasUrl(Current)
  /\ bRows' = Append(bRows, RestRow(Current, Threw(UrlRequired)))
  /\ bIdx' = bIdx + 1
  /\ UNCHANGED <<bPc, bSource, bServiceId, bDisabled, bLog, bResults, bError>>
  /\ UNCHANGED <<vvars, rvars>>

\* The request of makeRestRequest goes out (rest lines 117-135).
RestCall ==
  /\ bPc = "rest"
  /\ bIdx <= Len(Queue)
  /\ Current.id \notin bDisabled
  /\ HasUrl(Current)
  /\ bPc' = "restAwait"
  /\ UNCHANGED <<bSource, bServiceId, bDisabled, bIdx, bRows, bLog, bResults, bError>>
  /\ UNCHANGED <<vvars, rvars>>

\* NextIndex that stays at the service whose request threw.
NextIndex_Retry(idx, outcome) == IF outcome.threw THEN idx ELSE idx + 1

\* NextIndex that drops the service after one whose request threw.
NextIndex_SkipAfterThrow(idx, outcome) == IF outcome.threw THEN idx + 2 ELSE idx + 1

\* The for-of loops of rest line 30 and soap line 15 go on to the next
\* service whatever the request ended in.
NextIndex(idx, outcome) == idx + 1

\* The request settles and the iteration runs to its end.
RestSettle ==
  /\ bPc = "restAwait"
  /\ \E outcome \in RestOutcomes :
       /\ bRows' = Append(bRows, RestRow(Current, outcome))
       /\ bLog' = Append(bLog, [id |-> Current.id, threw |-> outcome.threw,
                                message |-> outcome.message])
       /\ bIdx' = NextIndex(bIdx, outcome)
  /\ bPc' = "rest"
  /\ UNCHANGED <<bSource, bServiceId, bDisabled, bResults, bError>>
  /\ UNCHANGED <<vvars, rvars>>

\* AppendRows that puts the new rows in front.
AppendRows_InFront(services, rows) == rows \o services

\* [...results.services, ...rows] of index.ts lines 60 and 67.
AppendRows(services, rows) == services \o rows

\* checkRestServices returns; index.ts lines 60-64.
RestEnd ==
  /\ bPc = "rest"
  /\ bIdx > Len(Queue)
  /\ bResults' = [bResults EXCEPT !.services = AppendRows(bResults.services, bRows)]
  /\ bRows' = <<>>
  /\ bIdx' = 1
  /\ bPc' = "soap"
  /\ UNCHANGED <<bSource, bServiceId, bDisabled, bLog, bError>>
  /\ UNCHANGED <<vvars, rvars>>

\* makeSoapRequest throws before any request when the service has no URL
\* (soap lines 70-72).
SoapNoUrl ==
  /\ bPc = "soap"
  /\ bIdx <= Len(Queue)
  /\ ~HasUrl(Current)
  /\ bRows' = Append(bRows, SoapRow(Current, Threw(UrlRequired)))
  /\ bIdx' = bIdx + 1
  /\ UNCHANGED <<bPc, bSource, bServiceId, bDisabled, bLog, bResults, bError>>
  /\ UNCHANGED <<vvars, rvars>>

\* The request of makeSoapRequest goes out (soap lines 75-115).
SoapCall ==
  /\ bPc = "soap"
  /\ bIdx <= Len(Queue)
  /\ HasUrl(Current)
  /\ bPc' = "soapAwait"
  /\ UNCHANGED <<bSource, bServiceId, bDisabled, bIdx, bRows, bLog, bResults, bError>>
  /\ UNCHANGED <<vvars, rvars>>

SoapSettle ==
  /\ bPc = "soapAwait"
  /\ \E outcome \in SoapOutcomes :
       /\ bRows' = Append(bRows, SoapRow(Current, outcome))
       /\ bLog' = Append(bLog, [id |-> Current.id, threw |-> outcome.threw,
                                message |-> outcome.message])
       /\ bIdx' = NextIndex(bIdx, outcome)
  /\ bPc' = "soap"
  /\ UNCHANGED <<bSource, bServiceId, bDisabled, bResults, bError>>
  /\ UNCHANGED <<vvars, rvars>>

\* checkSoapServices returns; index.ts lines 67-75.
SoapEnd ==
  /\ bPc = "soap"
  /\ bIdx > Len(Queue)
  /\ bResults' = [services |-> AppendRows(bResults.services, bRows),
                  summary |-> Summary(AppendRows(bResults.services, bRows))]
  /\ bRows' = <<>>
  /\ bPc' = "done"
  /\ UNCHANGED <<bSource, bServiceId, bDisabled, bIdx, bLog, bError>>
  /\ UNCHANGED <<vvars, rvars>>

(***************************************************************************)
(* Runs of checkAllServices on drawn catalogs.                             *)
(***************************************************************************)
MaxCatalog == 2

Ids == <<"s1", "s2", "s3", "s4">>

Lit == <<"lit">>
BatchEnv == [n \in {<<"U">>} |-> <<"u">>]

\* The kinds of descriptor of a drawn catalog.
Kinds ==
  {[Descriptor EXCEPT !.url = Lit, !.expectedStatus = 200,
                      !.expectedContent = Obj([k \in {"a"} |-> Num("1")])],
   Descriptor,
   [Descriptor EXCEPT !.type = "SOAP", !.url = Lit, !.expectedContent = Str("OK")],
   [Descriptor EXCEPT !.environment = "PROD", !.environmentUrls = EnvUrls("UAT", <<"h">>)],
   [Descriptor EXCEPT !.environment = "PROD", !.url = Lit],
   [Descriptor EXCEPT !.enabled = "false", !.environmentUrls = EnvUrls("UAT", <<"h">>)],
   [Descriptor EXCEPT !.type = "SOAP", !.environment = "UAT"],
   [Descriptor EXCEPT !.environment = "PROD", !.environmentUrls = EnvUrls("UAT", <<>>),
                      !.baseUrl = <<"h">>]}

\* The descriptors of the filter: every combination of environment, enabled
\* and an environmentUrls entry for UAT.
FilterKinds ==
  {[Descriptor EXCEPT !.url = Lit, !.environment = e, !.enabled = en, !.environmentUrls = eu] :
     e \in {"unset", "UAT", "PROD"}, en \in {"unset", "true", "false"},
     eu \in {<<>>, EnvUrls("UAT", <<"h">>), EnvUrls("UAT", <<>>)}}

\* Catalogs of at most MaxCatalog descriptors with distinct ids.
Catalogs(K) ==
  {[i \in 1..Len(c) |-> [c[i] EXCEPT !.id = Ids[i]]] :
     c \in UNION {[1..n -> K] : n \in 0..MaxCatalog}}

InitRun(K, serviceIds, disabled) ==
  /\ bPc = "start"
  /\ bSource \in {"file", "unparsable"}
  /\ rPc = "input"
  /\ rInput \in Catalogs(K)
  /\ bSource = "unparsable" => rInput = <<>>
  /\ rCatalog = rInput
  /\ rEnv = BatchEnv
  /\ rE \in {"UAT", "PROD"}
  /\ rOut = <<>>
  /\ bServiceId \in serviceIds
  /\ bDisabled \in disabled
  /\ bIdx = 0
  /\ bRows = <<>>
  /\ bLog = <<>>
  /\ bResults = NoResults
  /\ bError = <<>>
  /\ IdleVal

Init ==
  InitRun(Kinds, {"", Ids[1], Ids[MaxCatalog], "unknown"},
          {{}, {Ids[1]}, {Ids[i] : i \in 1..MaxCatalog}})

Next ==
  \/ Resolve
  \/ LoadFail
  \/ Select
  \/ RestSkip
  \/ RestNoUrl
  \/ RestCall
  \/ RestSettle
  \/ RestEnd
  \/ SoapNoUrl
  \/ SoapCall
  \/ SoapSettle
  \/ SoapEnd

Spec == Init /\ [][Next]_vars

\* The steps the event loop runs on its own, and the settling of a request
\* that is in flight (axios and the SOAP client return, throw or time out).
Orchestrator ==
  \/ Resolve
  \/ LoadFail
  \/ Select
  \/ RestSkip
  \/ RestNoUrl
  \/ RestCall
  \/ RestEnd
  \/ SoapNoUrl
  \/ SoapCall
  \/ SoapEnd

Transport == RestSettle \/ SoapSettle

\* The batch under a scheduler that runs every ready continuation and a
\* transport whose calls all settle.
SpecLive == Init /\ [][Next]_vars /\ WF_vars(Orchestrator) /\ WF_vars(Transport)

\* Runs over catalogs of REST services that differ in the fields of the filter.
InitFilter == InitRun(FilterKinds, {""}, {{}}) /\ bSource = "file"

NextFilter ==
  \/ Resolve
  \/ Select
  \/ RestCall
  \/ RestSettle
  \/ RestEnd
  \/ SoapEnd

SpecFilter == InitFilter /\ [][NextFilter]_vars

(***************************************************************************)
(* Properties of the validators (SpecVal).                                 *)
(***************************************************************************)
RestDone == vMode = "rest" /\ vOut.outcome # "none"
SoapDone == vMode = "soap" /\ vOut.outcome # "none"
Declared(x) == x.t \notin {"undefined", "null"}
StatusOk == vExpectedStatus = 0 \/ vResponse.status = vExpectedStatus

Field2(a, b) == Obj([k \in {"a", "b"} |-> IF k = "a" THEN a ELSE b])
Field3(a, b, c) ==
  Obj([k \in {"a", "b", "c"} |-> IF k = "a" THEN a ELSE IF k = "b" THEN b ELSE c])

\* C3: for a response whose status satisfies expectedStatus and a declared
\* expectedContent, validateRestResponse returns true if and only if at least
\* one of the four strategies accepts the body against the expectation.
C3_AnyStrategy ==
  (RestDone /\ StatusOk /\ Declared(vExpectedContent)) =>
    ((vOut.outcome = "T") <=>
       (vOut.structure \/ vOut.schema = "T" \/ vOut.pattern \/ vOut.flexible = "T"))

\* C4: when expectedStatus is declared and the response status differs from it,
\* the response is judged failed whatever the body and the expectation are, and
\* no content strategy is evaluated.
C4_StatusPrecondition ==
  (RestDone /\ vExpectedStatus # 0 /\ vResponse.status # vExpectedStatus) =>
    (vOut.outcome = "F" /\ vOut.tried = <<>>)

\* A response of status 404 against expectedStatus 200 whose body matches the
\* expectation structurally has been validated.
C4_Witness ==
  /\ RestDone
  /\ vExpectedStatus = 200 /\ vResponse.status = 404
  /\ Truthy(vExpectedContent) /\ vOut.structure

AnyCaseFaultKeys == {"Fault", "fault", "FAULT", "Error", "error"}

\* C6 as claimed: a SOAP response with a top-level key equal to fault or error
\* in any letter case is never judged valid.
C6_AnyCase ==
  (SoapDone /\ IsPlainObject(vResponse.data)
     /\ AnyCaseFaultKeys \cap Keys(vResponse.data) # {}) =>
    vOut.outcome # "T"

\* C6 as amended: a SOAP response with a top-level key spelled Fault, fault,
\* error or Error whose value is truthy is judged failed, whether or not the
\* content expectation is satisfied; {Fault: {...}} always fails.
C6_FaultSpellings ==
  /\ (SoapDone /\ IsPlainObject(vResponse.data)
        /\ \E k \in {"Fault", "fault", "error", "Error"} :
             k \in Keys(vResponse.data) /\ Truthy(vResponse.data.props[k])) =>
       vOut.outcome = "F"
  /\ \A ec \in {Undefined, Str("OK")}, c \in BOOLEAN :
       validateSoapResponse(ec, Obj([k \in {"Fault"} |-> Obj(<<>>)]), c) = "F"

\* A response carrying a Fault whose expected content was found has been validated.
C6_Witness ==
  /\ SoapDone
  /\ Truthy(vExpectedContent) /\ vContains
  /\ IsPlainObject(vResponse.data)
  /\ "Fault" \in Keys(vResponse.data) /\ Truthy(vResponse.data.props["Fault"])

RECURSIVE StructureClaimed(_, _)
StructureClaimed(a, e) ==
  \/ IsNull(a) /\ IsNull(e)
  \/ IsPrimitive(a) /\ IsPrimitive(e)
  \/ /\ IsArray(a) /\ IsArray(e) /\ Len(a.items) = Len(e.items)
     /\ \A i \in 1..Len(a.items) : StructureClaimed(a.items[i], e.items[i])
  \/ /\ IsPlainObject(a) /\ IsPlainObject(e) /\ Keys(a) = Keys(e)
     /\ \A k \in Keys(a) : StructureClaimed(a.props[k], e.props[k])

RECURSIVE StructureSameType(_, _)
StructureSameType(a, e) ==
  \/ IsNull(a) /\ IsNull(e)
  \/ IsPrimitive(a) /\ IsPrimitive(e) /\ a.t = e.t
  \/ /\ IsArray(a) /\ IsArray(e) /\ Len(a.items) = Len(e.items)
     /\ \A i \in 1..Len(a.items) : StructureSameType(a.items[i], e.items[i])
  \/ /\ IsPlainObject(a) /\ IsPlainObject(e) /\ Keys(a) = Keys(e)
     /\ \A k \in Keys(a) : StructureSameType(a.props[k], e.props[k])

\* C8 as claimed: compareStructure is true exactly when both values are null,
\* both are primitives (whatever their values), both are arrays of equal length
\* matching pairwise, or both are objects with the same key set matching per key.
C8_AnyPrimitives ==
  (RestDone /\ vExpectedContent.t # "undefined") =>
    (vOut.structure <=> StructureClaimed(vResponse.data, vExpectedContent))

\* C8 as amended: as claimed, with two primitives matching exactly when they
\* have the same typeof type (whatever their values); {a:1,b:[1,2]} against
\* {a:99,b:[7,8]} passes and {a:1,b:[1,2,3]} against it fails.
C8_Structure ==
  /\ (RestDone /\ vExpectedContent.t # "undefined") =>
       (vOut.structure <=> StructureSameType(vResponse.data, vExpectedContent))
  /\ compareStructure(Field2(Num("1"), Arr(<<Num("1"), Num("2")>>)),
                      Field2(Num("99"), Arr(<<Num("7"), Num("8")>>)))
  /\ ~compareStructure(Field2(Num("1"), Arr(<<Num("1"), Num("2"), Num("3")>>)),
                       Field2(Num("99"), Arr(<<Num("7"), Num("8")>>)))

\* Two objects that hold different numbers and an array under the same keys
\* have been compared and match.
C8_Witness ==
  /\ RestDone /\ vOut.structure
  /\ IsPlainObject(vResponse.data) /\ Keys(vResponse.data) = {"a", "b"}
  /\ IsArray(vResponse.data.props["b"])
  /\ vResponse.data.props["a"] = Num("1")
  /\ IsPlainObject(vExpectedContent) /\ vExpectedContent.props["a"] = Num("2")

\* C9: the schema derived from an expectation object accepts only a non-null,
\* non-array object whose key set is exactly the expectation's and whose values
\* satisfy their sub-schemas; {a:1,b:2,c:3} against {a:1,b:2} is rejected by the
\* schema strategy and by the structure strategy.
C9_SchemaExactKeys ==
  /\ (RestDone /\ IsPlainObject(vExpectedContent) /\ vOut.schema = "T") =>
       /\ IsPlainObject(vResponse.data)
       /\ Keys(vResponse.data) = Keys(vExpectedContent)
       /\ \A k \in Keys(vExpectedContent) :
            validateSchema(vResponse.data.props[k],
                           generateSchema(vExpectedContent.props[k])) = "T"
  /\ (RestDone /\ IsPlainObject(vExpectedContent) /\ IsPlainObject(vResponse.data)
        /\ Keys(vResponse.data) # Keys(vExpectedContent)) =>
       (vOut.schema # "T" /\ ~vOut.structure)
  /\ validateSchema(Field3(Num("1"), Num("2"), Num("3")),
                    generateSchema(Field2(Num("1"), Num("2")))) = "F"
  /\ ~compareStructure(Field3(Num("1"), Num("2"), Num("3")), Field2(Num("1"), Num("2")))

\* An object has passed the schema of an expectation object that has the same
\* two keys and holds other values.
C9_Witness ==
  /\ RestDone /\ vOut.schema = "T"
  /\ IsPlainObject(vExpectedContent) /\ Keys(vExpectedContent) = {"a", "b"}
  /\ vResponse.data # vExpectedContent

(***************************************************************************)
(* Properties of URL resolution (SpecUrl).                                 *)
(***************************************************************************)
UrlDone == rPc = "resolved" /\ Len(rInput) = 1 /\ Len(rOut) = 1

Tokens(s) == {s[i] : i \in 1..Len(s)}

NonEmpty(s) == s # Undef /\ Len(s) > 0

\* C2 as claimed: the URL comes from the first rule that applies, where rule 1
\* applies when environmentUrls has an entry for E, rule 2 when the variable
\* named by urlEnvVar holds a value and rule 3 when baseUrl or path is given; a
\* descriptor that sets both environmentUrls[E] and urlEnvVar never gets its URL
\* from urlEnvVar.
C2_AnyEntry ==
  UrlDone =>
    LET d == rInput[1]
        url == rOut[1].url
    IN IF rE \in DOMAIN d.environmentUrls THEN
         /\ url = UrlFromEnvironmentUrls(d, rEnv, rE)
         /\ d.urlEnvVar # Undef => "u" \notin Tokens(url)
       ELSE IF NonEmpty(d.urlEnvVar) /\ NonEmpty(GetEnv(rEnv, d.urlEnvVar)) THEN
         url = GetEnv(rEnv, d.urlEnvVar)
       ELSE IF NonEmpty(d.baseUrl) \/ NonEmpty(d.path) THEN
         url = UrlFromBaseAndPath(d, rEnv)
       ELSE TRUE

\* C2 as amended: the URL comes from the first rule that applies, where rule 1
\* applies when environmentUrls[E] is a non-empty string, rule 2 when the
\* variable named by urlEnvVar has a non-empty value, and rule 3 when baseUrl or
\* path is non-empty; a descriptor with a non-empty environmentUrls[E] and a
\* urlEnvVar never gets its URL from urlEnvVar, whatever the variables hold.
C2_UrlPrecedence ==
  UrlDone =>
    LET d == rInput[1]
        url == rOut[1].url
    IN IF rE \in DOMAIN d.environmentUrls /\ NonEmpty(d.environmentUrls[rE]) THEN
         /\ url = UrlFromEnvironmentUrls(d, rEnv, rE)
         /\ d.urlEnvVar # Undef => "u" \notin Tokens(url)
       ELSE IF NonEmpty(d.urlEnvVar) /\ NonEmpty(GetEnv(rEnv, d.urlEnvVar)) THEN
         url = GetEnv(rEnv, d.urlEnvVar)
       ELSE IF NonEmpty(d.baseUrl) \/ NonEmpty(d.path) THEN
         url = UrlFromBaseAndPath(d, rEnv)
       ELSE TRUE

\* A descriptor with environmentUrls[E] and a urlEnvVar whose variable holds a
\* URL has been resolved.
C2_Witness ==
  /\ UrlDone
  /\ rE \in DOMAIN rInput[1].environmentUrls
  /\ NonEmpty(rInput[1].environmentUrls[rE])
  /\ rInput[1].urlEnvVar = <<"U">> /\ rEnv[<<"U">>] = <<"u">>
  /\ "u" \notin Tokens(rOut[1].url)

StripTrailing(s) ==
  IF s # Undef /\ EndsWithSlash(s) THEN SubSeq(s, 1, Len(s) - 1) ELSE s
StripLeading(s) ==
  IF s # Undef /\ StartsWithSlash(s) THEN SubSeq(s, 2, Len(s)) ELSE s

\* The descriptor and the variables with every base written without its
\* trailing slash and the path without its leading slash.
WithoutSlashes(d) ==
  [d EXCEPT !.environmentUrls = [e \in DOMAIN @ |-> StripTrailing(@[e])],
            !.baseUrl = StripTrailing(@),
            !.path = StripLeading(@)]
EnvWithoutSlashes(env) == [n \in DOMAIN env |-> StripTrailing(env[n])]

\* Rule 1 or rule 3 joins a base and a path that are not empty once the slash
\* is removed.
JoinsBaseAndPath(d, env, E) ==
  /\ NonEmpty(d.path) /\ NonEmpty(StripLeading(d.path))
  /\ \/ E \in DOMAIN d.environmentUrls /\ NonEmpty(d.environmentUrls[E])
     \/ /\ ~(NonEmpty(d.urlEnvVar) /\ NonEmpty(GetEnv(env, d.urlEnvVar)))
        /\ \/ NonEmpty(d.baseUrl)
           \/ NonEmpty(d.baseUrlEnvVar) /\ NonEmpty(GetEnv(env, d.baseUrlEnvVar))

SiteSlash == <<"https://a.com", "/">>
Site == <<"https://a.com">>

\* C10: joining a base and a path (rules 1 and 3) gives the same URL for the
\* base with or without a trailing slash and the path with or without a leading
\* slash; "https://a.com/" with "/x" and "https://a.com" with "x" both give
\* "https://a.com/x".
C10_SlashJoin ==
  /\ (UrlDone /\ JoinsBaseAndPath(rInput[1], rEnv, rE)) =>
       rOut[1].url = ResolveUrl(WithoutSlashes(rInput[1]), EnvWithoutSlashes(rEnv), rE)
  /\ \A b \in {Site, SiteSlash}, p \in {<<"x">>, <<"/", "x">>} :
       /\ ResolveUrl([Descriptor EXCEPT !.baseUrl = b, !.path = p], <<>>, "UAT")
            = <<"https://a.com", "/", "x">>
       /\ ResolveUrl([Descriptor EXCEPT !.environmentUrls = EnvUrls("UAT", b), !.path = p],
                     <<>>, "UAT")
            = <<"https://a.com", "/", "x">>

\* A base with a trailing slash and a path with a leading slash have been joined
\* by rule 3.
C10_Witness ==
  /\ UrlDone
  /\ rInput[1].environmentUrls = <<>> /\ rInput[1].urlEnvVar = Undef
  /\ rInput[1].baseUrlEnvVar = Undef
  /\ rInput[1].baseUrl = <<"h", "/">> /\ rInput[1].path = <<"/", "x">>
  /\ rOut[1].url = <<"h", "/", "x">>

(***************************************************************************)
(* Properties of header resolution (SpecHdr).                              *)
(***************************************************************************)
\* C7: for every headerEnvVars entry whose value is a single variable name V,
\* the resolved header value is the value of V_E when it is set and otherwise
\* the value of V when it is set, whatever else headers and headerEnvVars hold.
C7_SingleName ==
  UrlDone =>
    LET d == rInput[1]
        out == rOut[1].headers.map
    IN \A i \in 1..Len(d.headerEnvVars.entries) :
         LET entry == d.headerEnvVars.entries[i]
             V == entry.names[1]
             specific == GetEnv(rEnv, EnvSpecific(V, rE))
             plain == GetEnv(rEnv, V)
             value == IF TruthyS(specific) THEN specific ELSE plain
             names == {entry.key, GetEnv(rEnv, entry.key)}
         IN (entry.single /\ TruthyS(value)) =>
              \E n \in names : n \in DOMAIN out /\ out[n] = value

(***************************************************************************)
(* Properties of the batch (SpecFilter, Spec).                             *)
(***************************************************************************)
\* The rows pushed so far and the services a request has gone out for.
AllRows == bResults.services \o bRows
RowIds == {AllRows[j].id : j \in 1..Len(AllRows)}
Called ==
  {bLog[k].id : k \in 1..Len(bLog)}
  \cup (IF bPc \in {"restAwait", "soapAwait"} THEN {Current.id} ELSE {})

\* The positions of the catalog that the filtering contract keeps.
KeptPositions ==
  {i \in 1..Len(rInput) :
     /\ \/ rE \in DOMAIN rInput[i].environmentUrls
        \/ rInput[i].environment = "unset"
        \/ rInput[i].environment = rE
     /\ rInput[i].enabled # "false"}

\* C1: the resolver's output holds exactly the descriptors that have an
\* environmentUrls entry for E, or no environment pin, or the pin E, and whose
\* enabled flag is not false, in catalog order; no other descriptor is in the
\* output, gets a transport call or gets a result row.
C1_FilterContract ==
  /\ rPc = "resolved" =>
       /\ Len(rOut) = Cardinality(KeptPositions)
       /\ \A i \in KeptPositions :
            rOut[Cardinality({k \in KeptPositions : k <= i})].id = rInput[i].id
  /\ \A i \in (1..Len(rInput)) \ KeptPositions :
       /\ rInput[i].id \notin Called
       /\ rInput[i].id \notin RowIds

\* A finished run in UAT over two descriptors pinned to PROD: the first is
\* dropped, the second is kept by its environmentUrls entry and has the only row.
C1_Witness ==
  /\ bPc = "done"
  /\ rE = "UAT"
  /\ Len(rInput) = 2
  /\ rInput[1].environment = "PROD" /\ rInput[1].environmentUrls = <<>>
  /\ rInput[1].enabled = "true"
  /\ rInput[2].environment = "PROD" /\ "UAT" \in DOMAIN rInput[2].environmentUrls
  /\ rInput[2].enabled # "false"
  /\ Len(rOut) = 1 /\ rOut[1].id = rInput[2].id
  /\ RowIds = {rInput[2].id}
  /\ Called = {rInput[2].id}

\* The services a finished run had to check, REST before SOAP.
Checked ==
  SelectType(ServicesToCheck(rOut, bServiceId), "REST")
  \o SelectType(ServicesToCheck(rOut, bServiceId), "SOAP")

RowsOf(id) == {j \in 1..Len(AllRows) : AllRows[j].id = id}

\* C5: a request that throws does not abort the batch: the service gets
\* exactly one row, failed, with the error message as details, and at the end
\* every service of the batch has its own row, each one after a request of its
\* own unless it has no URL or is a REST service of the disabled list.
C5_TransportFailure ==
  (\E k \in 1..Len(bLog) : bLog[k].threw) =>
    /\ bPc # "error" /\ bError = <<>>
    /\ \A k \in 1..Len(bLog) :
         bLog[k].threw =>
           /\ Cardinality(RowsOf(bLog[k].id)) = 1
           /\ \A j \in RowsOf(bLog[k].id) :
                /\ AllRows[j].status = "failed"
                /\ AllRows[j].details = <<"Error: ", bLog[k].message>>
    /\ bPc = "done" =>
         /\ Len(AllRows) = Len(Checked)
         /\ \A i \in 1..Len(Checked) :
              /\ AllRows[i].id = Checked[i].id
              /\ (TruthyS(Checked[i].url)
                  /\ ~(Checked[i].type = "REST" /\ Checked[i].id \in bDisabled))
                 => Checked[i].id \in Called

\* A finished batch of two services: the request of the first threw, the
\* second was requested after it and judged healthy.
C5_Witness ==
  /\ bPc = "done"
  /\ Len(bLog) = 2
  /\ bLog[1].threw /\ ~bLog[2].threw
  /\ Len(bResults.services) = 2
  /\ bResults.services[1].id = bLog[1].id
  /\ bResults.services[1].details = <<"Error: ", "timeout">>
  /\ bResults.services[2].id = bLog[2].id
  /\ bResults.services[2].status = "success"

(***************************************************************************)
(* Properties of the flexible strategy and of absent expectations          *)
(* (SpecVal).                                                              *)
(***************************************************************************)
\* Every expected key is a key of the actual object and its value matches.
ExpectedKeysMatch(actual, expected, allowExtraFields) ==
  \A k \in Keys(expected) :
    /\ k \in Keys(actual)
    /\ compare(actual.props[k], expected.props[k], FALSE, allowExtraFields, FALSE) = "T"

\* C11: with allowExtraFields=true and typeStrict=false compareFlexible accepts
\* every actual object that has each expected key with a recursively matching
\* value, whatever extra keys it has ({a:1,extra:true} against {a:2} passes);
\* with allowExtraFields=false an actual object is accepted only if it has as
\* many keys as the expectation and every expected key is present and matches.
C11_FlexibleExtraFields ==
  /\ (RestDone /\ IsPlainObject(vExpectedContent) /\ IsPlainObject(vResponse.data)
        /\ ExpectedKeysMatch(vResponse.data, vExpectedContent, TRUE)) =>
       vOut.flexibleExtra = "T"
  /\ (RestDone /\ IsPlainObject(vExpectedContent) /\ IsPlainObject(vResponse.data)
        /\ vOut.flexible = "T") =>
       /\ Cardinality(Keys(vResponse.data)) = Cardinality(Keys(vExpectedContent))
       /\ ExpectedKeysMatch(vResponse.data, vExpectedContent, FALSE)
  /\ compareFlexible(Obj([k \in {"a", "extra"} |-> IF k = "a" THEN Num("1") ELSE Bool("true")]),
                     Obj([k \in {"a"} |-> Num("2")]), FALSE, TRUE, FALSE) = "T"

\* C12: without a declared expectedContent validateRestResponse returns true
\* for every body once the status precondition holds, and validateSoapResponse
\* returns true for every response that carries no fault or error key.
C12_NoExpectation ==
  /\ (RestDone /\ vExpectedContent = Undefined /\ StatusOk) => vOut.outcome = "T"
  /\ (SoapDone /\ vExpectedContent = Undefined
        /\ ~(IsPlainObject(vResponse.data)
             /\ AnyCaseFaultKeys \cap Keys(vResponse.data) # {})) =>
       vOut.outcome = "T"

(***************************************************************************)
(* Frame of the resolver (SpecHdr).                                        *)
(***************************************************************************)
\* C13: after processEnvironmentVariables has returned, every descriptor of the
\* input catalog, its headers included, equals its value before the call.
C13_InputsUnchanged ==
  rPc = "resolved" => rCatalog = rInput

(***************************************************************************)
(* Further properties of the batch (Spec).                                 *)
(***************************************************************************)
\* C14: a service, REST or SOAP, whose id is in the disabled list gets no
\* transport call in the batch and exactly one result row.
C14_DisabledNotCalled ==
  /\ \A id \in bDisabled : id \notin Called
  /\ bPc = "done" =>
       \A i \in 1..Len(Checked) :
         Checked[i].id \in bDisabled => Cardinality(RowsOf(Checked[i].id)) = 1

\* The position in the catalog of the descriptor with the given id.
Pos(id) == CHOOSE i \in 1..Len(rInput) : rInput[i].id = id

\* The order of two checked services: REST before SOAP, catalog order within
\* a type.
TypeThenCatalog(id1, id2) ==
  \/ rInput[Pos(id1)].type = "REST" /\ rInput[Pos(id2)].type = "SOAP"
  \/ rInput[Pos(id1)].type = rInput[Pos(id2)].type /\ Pos(id1) < Pos(id2)

\* C15 as claimed: the services are called in catalog order and the rows of
\* results.services are in the order of their descriptors in the catalog.
C15_CatalogOrder ==
  /\ \A j, k \in 1..Len(AllRows) :
       j < k => Pos(AllRows[j].id) < Pos(AllRows[k].id)
  /\ \A j, k \in 1..Len(bLog) :
       j < k => Pos(bLog[j].id) < Pos(bLog[k].id)

\* C15 as amended: the REST services are checked first and the SOAP services
\* after them, each group in catalog order, and the rows of results.services
\* are in that order: every REST row before every SOAP row, catalog order
\* within a type.
C15_TypeThenCatalogOrder ==
  /\ \A j, k \in 1..Len(AllRows) :
       j < k => TypeThenCatalog(AllRows[j].id, AllRows[k].id)
  /\ \A j, k \in 1..Len(bLog) :
       j < k => TypeThenCatalog(bLog[j].id, bLog[k].id)
  /\ bPc = "done" =>
       \A j, k \in 1..Len(bResults.services) :
         j < k => TypeThenCatalog(bResults.services[j].id, bResults.services[k].id)

\* A finished batch over a catalog that lists a SOAP service before a REST
\* service: both were called, and the row of the REST service comes first.
C15_Witness ==
  /\ bPc = "done"
  /\ Len(rInput) = 2 /\ rInput[1].type = "SOAP" /\ rInput[2].type = "REST"
  /\ Len(bLog) = 2 /\ bLog[1].id = rInput[2].id /\ bLog[2].id = rInput[1].id
  /\ Len(bResults.services) = 2
  /\ bResults.services[1].id = rInput[2].id
  /\ bResults.services[2].id = rInput[1].id

\* The call names a service id that no service of the filtered catalog has.
UnknownId ==
  /\ rPc = "resolved"
  /\ bServiceId # ""
  /\ \A i \in 1..Len(rOut) : rOut[i].id # bServiceId

\* C16: a call with a service id that is not in the filtered catalog of the
\* current environment fails with an error surfaced to the caller, makes no
\* transport call and returns no batch result.
C16_UnknownServiceId ==
  (UnknownId /\ bPc # "start") =>
    /\ bPc = "error"
    /\ bError = <<NotFound>>
    /\ Called = {} /\ bLog = <<>>
    /\ AllRows = <<>> /\ bResults = NoResults

\* A call for the id of a descriptor that the filter dropped has failed.
C16_Witness ==
  /\ UnknownId
  /\ bPc = "error"
  /\ \E i \in 1..Len(rInput) : rInput[i].id = bServiceId
  /\ Len(rOut) > 0

\* None of URL rules 1-3 yields a URL for the descriptor.
NoRuleYields(d, env, E) ==
  /\ ~(E \in DOMAIN d.environmentUrls /\ NonEmpty(d.environmentUrls[E]))
  /\ ~(NonEmpty(d.urlEnvVar) /\ NonEmpty(GetEnv(env, d.urlEnvVar)))
  /\ ~(NonEmpty(d.baseUrl) \/ NonEmpty(d.path))

\* The kept descriptor at position i is resolved without a URL, is never
\* called and any row it has is failed with the details "URL is required".
EndsAsUrlRequired(i) ==
  /\ \E j \in 1..Len(rOut) : rOut[j].id = rInput[i].id /\ ~TruthyS(rOut[j].url)
  /\ rInput[i].id \notin Called
  /\ \A j \in RowsOf(rInput[i].id) :
       /\ AllRows[j].status = "failed"
       /\ AllRows[j].details = <<"Error: ", UrlRequired>>

\* Every selected service has its row at the end of the batch.
AllChecked ==
  bPc = "done" =>
    /\ Len(AllRows) = Len(Checked)
    /\ \A i \in 1..Len(Checked) : AllRows[i].id = Checked[i].id

C18_ConfigLoadError ==
  bSource = "unparsable" =>
    /\ bPc \in {"start", "error"}
    /\ rPc = "input" /\ rOut = <<>>
    /\ bPc = "error" => (Len(bError) = 2 /\ bError[1] = LoadFailed)
    /\ Called = {} /\ bLog = <<>>
    /\ AllRows = <<>> /\ bResults = NoResults

\* The load of an unparsable configuration file has failed.
C18_Witness ==
  /\ bSource = "unparsable"
  /\ bPc = "error"
  /\ bError = <<LoadFailed, "Unexpected token">>

RowsWithStatus(status) ==
  {j \in 1..Len(bResults.services) : bResults.services[j].status = status}

\* C19: a returned batch result has exactly one row per selected resolved
\* service, and its summary has total = number of rows, success = number of
\* rows with status success, failed = number of rows with status failed, and
\* total = success + failed.
C19_RowsAndSummary ==
  bPc = "done" =>
    /\ Len(bResults.services) = Len(Checked)
    /\ \A i \in 1..Len(Checked) :
         Cardinality({j \in 1..Len(bResults.services) :
                        bResults.services[j].id = Checked[i].id}) = 1
    /\ bResults.summary.total = Len(bResults.services)
    /\ bResults.summary.success = Cardinality(RowsWithStatus("success"))
    /\ bResults.summary.failed = Cardinality(RowsWithStatus("failed"))
    /\ bResults.summary.total = bResults.summary.success + bResults.summary.failed

\* A returned batch result with one healthy and one failed service.
C19_Witness ==
  /\ bPc = "done"
  /\ Len(bResults.services) = 2
  /\ bResults.services[1].status = "success"
  /\ bResults.services[2].status = "failed"
  /\ bResults.summary = [total |-> 2, success |-> 1, failed |-> 1]

\* A request is pending.
Awaiting == bPc \in {"restAwait", "soapAwait"}

\* C20: within a batch no service is requested twice, and while the request of
\* a service is pending nothing else is: every service checked before it has
\* its row and its request, if any, has settled, and no later service has been
\* requested or has a row.
C20_Sequential ==
  /\ \A j, k \in 1..Len(bLog) : j # k => bLog[j].id # bLog[k].id
  /\ Awaiting =>
       /\ \A k \in 1..Len(bLog) : bLog[k].id # Current.id
       /\ \E n \in 1..Len(Checked) :
            /\ Checked[n].id = Current.id
            /\ Len(AllRows) = n - 1
            /\ \A i \in 1..(n - 1) : AllRows[i].id = Checked[i].id
            /\ \A k \in 1..Len(bLog) : \E i \in 1..(n - 1) : bLog[k].id = Checked[i].id

\* The request of the second service is pending after the request of the first
\* one threw and its failed row was recorded.
C20_Witness ==
  /\ Awaiting
  /\ Len(bLog) = 1 /\ bLog[1].threw
  /\ Len(AllRows) = 1 /\ AllRows[1].id = bLog[1].id /\ AllRows[1].status = "failed"
  /\ Current.id # bLog[1].id

(***************************************************************************)
(* Exceptions inside the strategies (SpecVal).                             *)
(***************************************************************************)
\* C21: when a strategy throws while validateRestResponse validates a
\* response, the exception does not leave the function, the strategy counts as
\* not matching and every remaining strategy is still attempted; the verdict is
\* failed only when each of the four strategies has failed or thrown.
C21_StrategyThrow ==
  (RestDone /\ StatusOk /\ Truthy(vExpectedContent)
     /\ ~vOut.structure /\ vOut.schema = "X") =>
    /\ vOut.outcome # "X"
    /\ vOut.tried = <<"structure", "schema", "pattern">>
       \/ vOut.tried = <<"structure", "schema", "pattern", "flexible">>
    /\ vOut.outcome = "F" => (~vOut.pattern /\ vOut.flexible # "T")

(***************************************************************************)
(* Further properties of header resolution (SpecHdr).                      *)
(***************************************************************************)
\* The values that the environment variables hold.
EnvValues(env) == {env[n] : n \in {m \in DOMAIN env : TruthyS(env[m])}}

\* No variable named by the entry resolves, in its plain or its
\* environment-specific form.
Unresolved(entry, env, E) ==
  \A i \in 1..Len(entry.names) :
    /\ ~TruthyS(GetEnv(env, entry.names[i]))
    /\ ~TruthyS(GetEnv(env, EnvSpecific(entry.names[i], E)))

\* C22: every literal default of headers is in the resolved headers with its
\* literal value unless a value read from an environment variable overwrote
\* it; a headerEnvVars entry for which no variable resolves leaves the header
\* with its prior default when it has one and absent otherwise.
C22_HeaderDefaults ==
  UrlDone =>
    LET d == rInput[1]
        out == rOut[1].headers.map
    IN /\ \A k \in DOMAIN d.headers.map :
            /\ k \in DOMAIN out
            /\ out[k] = d.headers.map[k] \/ out[k] \in EnvValues(rEnv)
       /\ \A i \in 1..Len(d.headerEnvVars.entries) :
            LET entry == d.headerEnvVars.entries[i]
            IN Unresolved(entry, rEnv, rE) =>
                 IF entry.key \in DOMAIN d.headers.map
                   THEN entry.key \in DOMAIN out /\ out[entry.key] = d.headers.map[entry.key]
                   ELSE entry.key \notin DOMAIN out

(***************************************************************************)
(* Relations between the strategies (SpecVal).                             *)
(***************************************************************************)
\* C23: for every declared expectation and every body the content verdict
\* equals (the pattern strategy accepts or the schema strategy accepts), and
\* whenever the structure strategy or the flexible strategy accepts, the
\* pattern strategy accepts too.
C23_PatternOrSchema ==
  (RestDone /\ StatusOk /\ Declared(vExpectedContent)) =>
    /\ (vOut.outcome = "T") <=> (vOut.pattern \/ vOut.schema = "T")
    /\ (vOut.structure \/ vOut.flexible = "T") => vOut.pattern

DisabledRest == {i \in 1..Len(Checked) : Checked[i].type = "REST" /\ Checked[i].id \in bDisabled}

SatisfiesItem(item, expected) ==
  IF Len(expected.items) = 0 THEN TRUE
  ELSE validateSchema(item, generateSchema(expected.items[1])) = "T"

\* C26: against an expected array the schema strategy accepts exactly when the
\* actual value is an array and every one of its elements satisfies the single
\* item schema, which every value satisfies when the expected array is empty.
C26_ArraySchema ==
  (RestDone /\ IsArray(vExpectedContent)) =>
    ((vOut.schema = "T") <=>
       /\ IsArray(vResponse.data)
       /\ \A i \in 1..Len(vResponse.data.items) :
            SatisfiesItem(vResponse.data.items[i], vExpectedContent))

\* The pattern as stated: keys kept with the pattern of each value, every
\* array element and every primitive replaced by the wildcard, null kept.
RECURSIVE PatternClaimed(_)
PatternClaimed(expected) ==
  IF IsNull(expected) THEN Null
  ELSE IF IsArray(expected) THEN Arr([i \in 1..Len(expected.items) |-> Wildcard])
  ELSE IF IsPlainObject(expected) THEN
    Obj([k \in Keys(expected) |-> PatternClaimed(expected.props[k])])
  ELSE Wildcard

\* The match as stated, position by position.
RECURSIVE MatchClaimed(_, _)
MatchClaimed(actual, pattern) ==
  \/ pattern = Wildcard
  \/ IsNull(pattern) /\ IsNull(actual)
  \/ /\ IsArray(pattern) /\ IsArray(actual)
     /\ Len(actual.items) = Len(pattern.items)
     /\ \A i \in 1..Len(pattern.items) : MatchClaimed(actual.items[i], pattern.items[i])
  \/ /\ IsPlainObject(pattern) /\ IsPlainObject(actual)
     /\ Keys(actual) = Keys(pattern)
     /\ \A k \in Keys(pattern) : MatchClaimed(actual.props[k], pattern.props[k])

\* C27: createPattern builds the stated pattern of the expectation, and
\* matchesPattern is true exactly when the body matches that pattern as
\* stated (wildcard, null, equal-length array, identical key set).
C27_PatternMatch ==
  RestDone =>
    /\ createPattern(vExpectedContent) = PatternClaimed(vExpectedContent)
    /\ vOut.pattern <=> MatchClaimed(vResponse.data, PatternClaimed(vExpectedContent))

\* A nested object accepted by the pattern although the type of one of its
\* values differs from the expectation.
C27_Witness ==
  /\ RestDone
  /\ vExpectedContent = Field2(Num("1"), Arr(<<Num("1")>>))
  /\ vResponse.data = Field2(Str("s"), Arr(<<Num("1")>>))
  /\ vOut.pattern /\ ~vOut.structure

\* The first member of the list, if any, whose variable built by f is set.
RECURSIVE FirstSet(_, _, _, _)
FirstSet(names, env, E, specific) ==
  IF names = <<>> THEN Undef
  ELSE LET n == IF specific THEN EnvSpecific(names[1], E) ELSE names[1]
       IN IF TruthyS(GetEnv(env, n)) THEN GetEnv(env, n)
          ELSE FirstSet(Tail(names), env, E, specific)

\* C28: for a headerEnvVars entry whose value is a list of variable names, the
\* resolved header value is the value of the first member whose variable
\* <name>_<E> is set, and only when no member has one, the value of the first
\* member whose plain variable is set.
C28_ListPrecedence ==
  UrlDone =>
    LET d == rInput[1]
        out == rOut[1].headers.map
    IN \A i \in 1..Len(d.headerEnvVars.entries) :
         LET entry == d.headerEnvVars.entries[i]
             specific == FirstSet(entry.names, rEnv, rE, TRUE)
             plain == FirstSet(entry.names, rEnv, rE, FALSE)
             value == IF TruthyS(specific) THEN specific ELSE plain
             names == {entry.key, GetEnv(rEnv, entry.key)}
         IN (~entry.single /\ TruthyS(value)) =>
              \E n \in names : n \in DOMAIN out /\ out[n] = value

(***************************************************************************)
(* The environmentUrls rule in detail (SpecUrl).                            *)
(***************************************************************************)
\* The base URL of an environmentUrls entry V: the value of the variable named
\* V when it holds one, V itself otherwise.
BaseOf(V, env) == IF NonEmpty(GetEnv(env, V)) THEN GetEnv(env, V) ELSE V

Joined(base, path) == StripTrailing(base) \o <<"/">> \o StripLeading(path)

\* Rule 2 or rule 3 has a URL or a base to offer.
LaterBase(d, env) ==
  \/ NonEmpty(d.urlEnvVar) /\ NonEmpty(GetEnv(env, d.urlEnvVar))
  \/ NonEmpty(d.baseUrl)
  \/ NonEmpty(d.baseUrlEnvVar) /\ NonEmpty(GetEnv(env, d.baseUrlEnvVar))

\* C29 as claimed: for a descriptor with an environmentUrls entry V for E the
\* base is the variable named V or V itself; with a path the URL is the base
\* and the path joined by one slash, and the bare path when the base is not
\* usable.
C29_BarePath ==
  (UrlDone /\ rE \in DOMAIN rInput[1].environmentUrls) =>
    LET d == rInput[1]
        base == BaseOf(d.environmentUrls[rE], rEnv)
    IN IF NonEmpty(d.path)
         THEN rOut[1].url = IF NonEmpty(base) THEN Joined(base, d.path) ELSE d.path
       ELSE NonEmpty(base) => rOut[1].url = base

\* C29 as amended: the same for a non-empty entry V; an empty entry is skipped,
\* and the URL is the bare path only when neither urlEnvVar nor baseUrl nor
\* baseUrlEnvVar yields a value.
C29_EnvironmentUrl ==
  (UrlDone /\ rE \in DOMAIN rInput[1].environmentUrls) =>
    LET d == rInput[1]
        V == d.environmentUrls[rE]
        base == BaseOf(V, rEnv)
    IN IF NonEmpty(V)
         THEN rOut[1].url = IF NonEmpty(d.path) THEN Joined(base, d.path) ELSE base
       ELSE /\ rOut[1].url = ResolveUrl([d EXCEPT !.environmentUrls = <<>>], rEnv, rE)
            /\ (NonEmpty(d.path) /\ ~LaterBase(d, rEnv)) => rOut[1].url = d.path

\* An entry naming a variable that holds a base with a trailing slash has been
\* joined to a path with a leading slash.
C29_Witness ==
  /\ UrlDone
  /\ rE \in DOMAIN rInput[1].environmentUrls
  /\ rInput[1].environmentUrls[rE] = <<"V">> /\ rEnv[<<"V">>] = <<"e", "/">>
  /\ rInput[1].path = <<"/", "x">>
  /\ rOut[1].url = <<"e", "/", "x">>

(***************************************************************************)
(* Termination of the batch (SpecLive).                                     *)
(***************************************************************************)
ResultRowsOf(id) == {j \in 1..Len(bResults.services) : bResults.services[j].id = id}

\* The batch has returned a result with one row for every selected service,
\* a timed-out call being one failed row, or it has thrown before any request.
Completed ==
  \/ /\ bPc = "done"
     /\ Len(bResults.services) = Len(Checked)
     /\ \A i \in 1..Len(Checked) : Cardinality(ResultRowsOf(Checked[i].id)) = 1
     /\ \A k \in 1..Len(bLog) :
          bLog[k].message = "timeout" =>
            \A j \in ResultRowsOf(bLog[k].id) : bResults.services[j].status = "failed"
  \/ /\ bPc = "error"
     /\ bError # <<>>
     /\ bLog = <<>> /\ bResults = NoResults

\* C30: provided every transport call settles, every batch eventually
\* completes: it returns a result holding a row for every selected service, a
\* timed-out call being one failed row, or it surfaces an error raised before
\* any request; it never stops part-way through the service list.
C30_Completes == <>[]Completed

\* A finished batch of two services whose first call timed out.
C30_Witness ==
  /\ bPc = "done"
  /\ Len(Checked) = 2 /\ Len(bResults.services) = 2
  /\ Len(bLog) = 2 /\ bLog[1].message = "timeout" /\ ~bLog[2].threw
  /\ bResults.services[1].status = "failed"
  /\ bResults.services[2].status = "success"

====
